---- MODULE Spec2Model ----
(***************************************************************************)
(* A model of recorder/warcwriter.py: the WARC record serializer           *)
(* (BaseWARCWriter) and the multi-file writer with its file-handle cache   *)
(* (MultiFileWARCWriter).                                                  *)
(*                                                                         *)
(* Byte strings are TLA+ strings, so the framing ("\r\n", Content-Length)  *)
(* is computed on the bytes themselves.  Stream positions are 0-based, as  *)
(* in Python: the byte at position p of s is SubSeq(s, p + 1, p + 1).      *)
(*                                                                         *)
(* CodecSpec drives the record pipeline (constructors, ensure_digest,      *)
(* _check_revisit, _write_warc_record) on one record at a time.            *)
(* Spec drives a MultiFileWARCWriter: writes, closes, the idle sweep, and  *)
(* the faults of the file system and of the dedup index, one call at a     *)
(* time.  ThreadSpec runs a write and the idle sweep in two threads.       *)
(***************************************************************************)
EXTENDS Integers, Sequences, FiniteSets, TLC

VARIABLES
    \* ---- record pipeline (CodecSpec) ----
    stage,      \* "idle" | "built" | "checked" | "skipped" | "written"
    rec,        \* the ArcWarcRecord in hand (None when there is none)
    origin,     \* the constructor that built rec
    lookup,     \* outcome of dedup_index.lookup_revisit applied to rec
    ncalls,     \* ensure_digest calls made on rec since it was built
    lastop,     \* the operation that produced this state
    out,        \* bytes _write_warc_record wrote to its sink (before gzip)
    prepos,     \* rec's stream position when _write_warc_record was entered
    \* ---- MultiFileWARCWriter (Spec) ----
    cfg,        \* constructor arguments: max_size, max_idle_secs, dedup_index, gzip
    fh_cache,   \* dir key -> (out, filename), or NoEntry
    handles,    \* file object of each file opened so far
    disk,       \* the files behind the cached handles: size, mtime, present
    nfiles,     \* number of filenames handed out by get_new_filename
    now,        \* wall clock, in seconds
    index,      \* calls made to the dedup index by the last operation
    last,       \* what the last operation was given and what it returned
    \* ---- two threads on one MultiFileWARCWriter (ThreadSpec) ----
    pc,         \* where the writing and the sweeping thread stand
    frame       \* their local variables

codecVars == <<stage, rec, origin, lookup, ncalls, lastop, out, prepos>>
writerVars == <<cfg, fh_cache, handles, disk, nfiles, now, index, last, pc, frame>>
vars == <<stage, rec, origin, lookup, ncalls, lastop, out, prepos,
          cfg, fh_cache, handles, disk, nfiles, now, index, last, pc, frame>>

(***************************************************************************)
(* Bounds of the model.                                                    *)
(***************************************************************************)
\* ensure_digest calls counted per record
MaxDigestCalls == 2
\* files one writer may create
MaxFiles == 2
\* seconds the clock may advance
MaxTime == 2

(***************************************************************************)
(* Program constants.                                                      *)
(***************************************************************************)
BUFF_SIZE == 8192

REVISIT_PROFILE ==
    "http://netpreserve.org/warc/1.0/revisit/uri-agnostic-identical-payload-digest"

WARC_RECORDS(type) ==
    CASE type = "warcinfo" -> "application/warc-fields"
      [] type = "response" -> "application/http; msgtype=response"
      [] type = "revisit"  -> "application/http; msgtype=response"
      [] type = "request"  -> "application/http; msgtype=request"
      [] type = "metadata" -> "application/warc-fields"
      [] OTHER -> ""

(***************************************************************************)
(* Header mappings: a dict is a sequence of <<name, value>> pairs with     *)
(* distinct names; get of an absent name yields "" (None and "" are both   *)
(* falsy, and the code only tests truthiness).                             *)
(***************************************************************************)
Has(h, n) == \E i \in DOMAIN h : h[i][1] = n

Get(h, n) ==
    IF Has(h, n) THEN h[CHOOSE i \in DOMAIN h : h[i][1] = n][2] ELSE ""

Set(h, n, v) ==
    IF Has(h, n)
    THEN [i \in DOMAIN h |-> IF h[i][1] = n THEN <<n, v>> ELSE h[i]]
    ELSE Append(h, <<n, v>>)

\* str.lower() on the header names the model uses
Lower(n) ==
    CASE n = "Content-Type"   -> "content-type"
      [] n = "Content-Length" -> "content-length"
      [] n = "Cookie"         -> "cookie"
      [] n = "Set-Cookie"     -> "set-cookie"
      [] n = "Host"           -> "host"
      [] OTHER -> n

(***************************************************************************)
(* Streams: read(n) and readline() from position p of the bytes s.         *)
(***************************************************************************)
Min(a, b) == IF a < b THEN a ELSE b

read(s, p, n) == SubSeq(s, p + 1, Min(Len(s), p + n))

\* the least member of a non-empty set of numbers
Least(S) == CHOOSE i \in S : \A j \in S : i <= j

\* position just after the first "\n" at or after p, or the end of s
EolFrom(s, p) ==
    LET nl == {i \in (p + 1)..Len(s) : SubSeq(s, i, i) = "\n"}
    IN  IF nl = {} THEN Len(s) ELSE Least(nl)

readline(s, p) == SubSeq(s, p + 1, EolFrom(s, p))

RECURSIVE rstrip(_)
rstrip(l) ==
    IF l # "" /\ SubSeq(l, Len(l), Len(l)) \in {"\r", "\n", " ", "\t"}
    THEN rstrip(SubSeq(l, 1, Len(l) - 1))
    ELSE l

RECURSIVE lstrip(_)
lstrip(l) ==
    IF l # "" /\ SubSeq(l, 1, 1) \in {"\r", "\n", " ", "\t"}
    THEN lstrip(SubSeq(l, 2, Len(l)))
    ELSE l

\* 1-based index of the first c in l at or after i; 0 when there is none
IndexOf(l, c, i) ==
    LET at == {j \in i..Len(l) : SubSeq(l, j, j) = c}
    IN  IF at = {} THEN 0 ELSE Least(at)

(***************************************************************************)
(* StatusAndHeadersParser.parse and StatusAndHeaders.to_bytes, the two     *)
(* calls the writer makes into the header parser.                          *)
(***************************************************************************)
NoStatus ==
    [present |-> FALSE, statusline |-> "", headers |-> <<>>, headers_buff |-> ""]

RECURSIVE ParseHeaderLines(_, _, _)
ParseHeaderLines(s, p, acc) ==
    LET full == readline(s, p)
        line == rstrip(full)
        c    == IndexOf(line, ":", 1)
    IN  IF line = "" THEN [headers |-> acc, pos |-> p + Len(full)]
        ELSE ParseHeaderLines(s, p + Len(full),
                 IF c = 0 THEN acc
                 ELSE Append(acc, <<rstrip(SubSeq(line, 1, c - 1)),
                                    lstrip(SubSeq(line, c + 1, Len(line)))>>))

\* ok = FALSE stands for the EOFError raised at the end of the stream
parse(s, p) ==
    LET full == readline(s, p)
        statusline == rstrip(full)
    IN  IF full = "" THEN [ok |-> FALSE, statusline |-> "", headers |-> <<>>, pos |-> p]
        ELSE IF statusline = ""
        THEN [ok |-> TRUE, statusline |-> "", headers |-> <<>>, pos |-> p + Len(full)]
        ELSE LET r == ParseHeaderLines(s, p + Len(full), <<>>)
             IN  [ok |-> TRUE, statusline |-> statusline,
                  headers |-> r.headers, pos |-> r.pos]

RECURSIVE HeaderLines(_, _)
HeaderLines(hs, exclude_list) ==
    IF hs = <<>> THEN ""
    ELSE (IF Lower(Head(hs)[1]) \in exclude_list THEN ""
          ELSE Head(hs)[1] \o ": " \o Head(hs)[2] \o "\r\n")
         \o HeaderLines(Tail(hs), exclude_list)

to_bytes(sh, exclude_list) ==
    (IF sh.statusline # "" THEN sh.statusline \o "\r\n" ELSE "")
    \o HeaderLines(sh.headers, exclude_list) \o "\r\n"

(***************************************************************************)
(* Digester: str(digester) is "sha1:" + base32(sha1(data)).  The hash is   *)
(* modelled as collision free: the text after "sha1:" is an injective,     *)
(* line-break free encoding of the data fed to update().                   *)
(***************************************************************************)
RECURSIVE b32encode(_)
b32encode(data) ==
    IF data = "" THEN ""
    ELSE IF Len(data) = 1
    THEN (CASE data = "\r" -> "=0D" [] data = "\n" -> "=0A" [] data = "=" -> "=3D"
            [] OTHER -> data)
    ELSE b32encode(SubSeq(data, 1, Len(data) \div 2))
         \o b32encode(SubSeq(data, Len(data) \div 2 + 1, Len(data)))

Digester(data) == "sha1:" \o b32encode(data)

(***************************************************************************)
(* ArcWarcRecord: rec_type, rec_headers, stream (bytes and position),      *)
(* status_headers, content_type, length.                                   *)
(***************************************************************************)
ArcWarcRecord(rec_type, rec_headers, stream, status_headers, content_type, length) ==
    [rec_type |-> rec_type, rec_headers |-> rec_headers,
     stream |-> stream.bytes, pos |-> stream.pos,
     status_headers |-> status_headers,
     content_type |-> content_type, length |-> length]

None == [rec_type |-> "None", rec_headers |-> <<>>, stream |-> "", pos |-> 0,
         status_headers |-> NoStatus, content_type |-> "", length |-> 0]

RECURSIVE ReadChunks(_, _, _)
\* the read loop of ensure_digest: BUFF_SIZE bytes at a time until read() is empty
ReadChunks(s, p, acc) ==
    LET buf == read(s, p, BUFF_SIZE)
    IN  IF buf = "" THEN [data |-> acc, pos |-> p]
        ELSE ReadChunks(s, p + Len(buf), acc \o buf)

\* the mutant of C7: the stream is left where the read loop ended
ensure_digest_noseek(record) ==
    LET body == ReadChunks(record.stream, record.pos, "")
        block == (IF record.status_headers.present
                  THEN record.status_headers.headers_buff ELSE "") \o body.data
    IN  IF Get(record.rec_headers, "WARC-Block-Digest") # ""
           /\ Get(record.rec_headers, "WARC-Payload-Digest") # "" THEN record
        ELSE [record EXCEPT
                !.pos = body.pos,
                !.rec_headers =
                    Set(Set(record.rec_headers, "WARC-Block-Digest", Digester(block)),
                        "WARC-Payload-Digest", Digester(body.data))]

ensure_digest(record) ==
    LET block_digest   == Get(record.rec_headers, "WARC-Block-Digest")
        payload_digest == Get(record.rec_headers, "WARC-Payload-Digest")
        pos  == record.pos
        body == ReadChunks(record.stream, pos, "")
        block == (IF record.status_headers.present
                  THEN record.status_headers.headers_buff ELSE "") \o body.data
    IN  IF block_digest # "" /\ payload_digest # "" THEN record
        ELSE [record EXCEPT
                !.pos = pos,
                !.rec_headers =
                    Set(Set(record.rec_headers, "WARC-Block-Digest", Digester(block)),
                        "WARC-Payload-Digest", Digester(body.data))]

_make_warc_id(id_) == "<urn:uuid:" \o id_ \o ">"

_set_header_buff(record, exclude_list) ==
    [record EXCEPT !.status_headers.headers_buff =
                       to_bytes(record.status_headers, exclude_list)]

StatusOf(p) ==
    [present |-> TRUE, statusline |-> p.statusline, headers |-> p.headers,
     headers_buff |-> ""]

\* payload: [bytes, pos]; the constructors take its length from payload.tell()
create_req_record(req_headers, payload, exclude_list, id_) ==
    LET len_ == payload.pos
        h1 == Set(req_headers, "WARC-Type", "request")
        warc_headers == IF Get(h1, "WARC-Record-ID") = ""
                        THEN Set(h1, "WARC-Record-ID", _make_warc_id(id_)) ELSE h1
        sh == parse(payload.bytes, 0)
    IN  _set_header_buff(
            ArcWarcRecord("request", warc_headers,
                          [bytes |-> payload.bytes, pos |-> sh.pos],
                          StatusOf(sh), "", len_),
            exclude_list)

read_resp_record(payload, exclude_list) ==
    LET len_ == payload.pos
        wh == parse(payload.bytes, 0)
        warc_headers == wh.headers
        record_type == IF Get(warc_headers, "WARC-Type") = "" THEN "response"
                       ELSE Get(warc_headers, "WARC-Type")
        sh == IF record_type = "response" THEN parse(payload.bytes, wh.pos)
              ELSE [ok |-> TRUE, statusline |-> "", headers |-> <<>>, pos |-> wh.pos]
        record == ArcWarcRecord(record_type, warc_headers,
                                [bytes |-> payload.bytes, pos |-> sh.pos],
                                IF record_type = "response" THEN StatusOf(sh) ELSE NoStatus,
                                "", len_)
    IN  ensure_digest(IF record_type = "response"
                      THEN _set_header_buff(record, exclude_list) ELSE record)

\* the mutant of C8: the line is written without its terminator
_line_bare(line) == line

_line(line) == line \o "\r\n"

_header(name, value) ==
    IF value = "" THEN "" ELSE _line(name \o ": " \o value)

RECURSIVE InfoLines(_)
InfoLines(info) ==
    IF info = <<>> THEN ""
    ELSE _header(Head(info)[1], Head(info)[2]) \o InfoLines(Tail(info))

create_warcinfo_record(filename, info, id_, date) ==
    LET h1 == <<<<"WARC-Record-ID", _make_warc_id(id_)>>, <<"WARC-Type", "warcinfo">>>>
        h2 == IF filename # "" THEN Set(h1, "WARC-Filename", filename) ELSE h1
        warc_headers == Set(h2, "WARC-Date", date)
        warcinfo == InfoLines(info)
    IN  ArcWarcRecord("warcinfo", warc_headers, [bytes |-> warcinfo, pos |-> 0],
                      NoStatus, "", Len(warcinfo))

create_custom_record(uri, payload, record_type, content_type, headers, id_, date) ==
    LET len_ == payload.pos
        h1 == Set(headers, "WARC-Record-ID", _make_warc_id(id_))
        h2 == Set(h1, "WARC-Type", record_type)
        h3 == Set(h2, "WARC-Target-URI", uri)
        warc_headers == IF ~Has(h3, "WARC-Date") THEN Set(h3, "WARC-Date", date) ELSE h3
    IN  ensure_digest(ArcWarcRecord(record_type, warc_headers,
                                    [bytes |-> payload.bytes, pos |-> 0],
                                    NoStatus, content_type, len_))

(***************************************************************************)
(* _check_revisit.  result is what dedup_index.lookup_revisit did:         *)
(*   [kind |-> "none"], [kind |-> "skip"], [kind |-> "raise"] or           *)
(*   [kind |-> "revisit", uri |-> ..., date |-> ...].                      *)
(* The value is None when the record is to be skipped.                     *)
(***************************************************************************)
\* the mutant of C1: a "skip" answer is taken for no match
_check_revisit_noskip(record, dedup_index, result) ==
    IF ~dedup_index THEN record
    ELSE IF result.kind = "revisit"
    THEN [record EXCEPT !.rec_headers =
            Set(Set(Set(Set(record.rec_headers,
                "WARC-Type", "revisit"),
                "WARC-Profile", REVISIT_PROFILE),
                "WARC-Refers-To-Target-URI", result.uri),
                "WARC-Refers-To-Date", result.date)]
    ELSE record

\* the mutant of C9: a lookup that raises skips the record
_check_revisit_raiseskips(record, dedup_index, result) ==
    IF ~dedup_index THEN record
    ELSE IF result.kind \in {"skip", "raise"} THEN None
    ELSE IF result.kind = "revisit"
    THEN [record EXCEPT !.rec_headers =
            Set(Set(Set(Set(record.rec_headers,
                "WARC-Type", "revisit"),
                "WARC-Profile", REVISIT_PROFILE),
                "WARC-Refers-To-Target-URI", result.uri),
                "WARC-Refers-To-Date", result.date)]
    ELSE record

\* the mutant of C5: a match sets the references but leaves WARC-Type alone
_check_revisit_keeptype(record, dedup_index, result) ==
    IF ~dedup_index THEN record
    ELSE IF result.kind = "skip" THEN None
    ELSE IF result.kind = "revisit"
    THEN [record EXCEPT !.rec_headers =
            Set(Set(Set(record.rec_headers,
                "WARC-Profile", REVISIT_PROFILE),
                "WARC-Refers-To-Target-URI", result.uri),
                "WARC-Refers-To-Date", result.date)]
    ELSE record

_check_revisit(record, dedup_index, result) ==
    LET res == IF result.kind = "raise" THEN [kind |-> "none", uri |-> "", date |-> ""]
               ELSE result
    IN  IF ~dedup_index THEN record
        ELSE IF res.kind = "skip" THEN None
        ELSE IF res.kind = "revisit"
        THEN [record EXCEPT !.rec_headers =
                Set(Set(Set(Set(record.rec_headers,
                    "WARC-Type", "revisit"),
                    "WARC-Profile", REVISIT_PROFILE),
                    "WARC-Refers-To-Target-URI", res.uri),
                    "WARC-Refers-To-Date", res.date)]
        ELSE record

(***************************************************************************)
(* _write_warc_record: the bytes written to the sink (before any gzip      *)
(* wrapping) and the record's stream position afterwards.                  *)
(***************************************************************************)
RECURSIVE RecHeaderLines(_)
RecHeaderLines(h) ==
    IF h = <<>> THEN ""
    ELSE (IF Lower(Head(h)[1]) \in {"content-length", "content-type"} THEN ""
          ELSE _header(Head(h)[1], Head(h)[2]))
         \o RecHeaderLines(Tail(h))

\* the mutant of C19: record.content_type is looked at before the header
ContentTypeOf_override(record) ==
    LET c1 == record.content_type
        c2 == IF c1 = "" THEN Get(record.rec_headers, "Content-Type") ELSE c1
    IN  IF c2 = "" THEN WARC_RECORDS(Get(record.rec_headers, "WARC-Type")) ELSE c2

ContentTypeOf(record) ==
    LET c1 == Get(record.rec_headers, "Content-Type")
        c2 == IF c1 = "" THEN record.content_type ELSE c1
    IN  IF c2 = "" THEN WARC_RECORDS(Get(record.rec_headers, "WARC-Type")) ELSE c2

\* the mutant of C6: the declared length is emitted as it is
actual_len_declared(record) == record.length

\* the value of the Content-Length header of a record with a length
actual_len(record) ==
    LET http_headers_only == Get(record.rec_headers, "WARC-Type") = "revisit"
        hlen == IF record.status_headers.present
                THEN Len(record.status_headers.headers_buff) ELSE 0
    IN  IF http_headers_only THEN hlen
        ELSE record.length - (record.pos - hlen)

_write_warc_record(record) ==
    LET head == _line("WARC/1.0") \o RecHeaderLines(record.rec_headers)
                \o _header("Content-Type", ContentTypeOf(record))
        http_headers_only == Get(record.rec_headers, "WARC-Type") = "revisit"
        body == SubSeq(record.stream, record.pos + 1, Len(record.stream))
    IN  IF record.length # 0
        THEN [bytes |-> head
                        \o _header("Content-Length", ToString(actual_len(record)))
                        \o _line("")
                        \o (IF record.status_headers.present
                            THEN record.status_headers.headers_buff ELSE "")
                        \o (IF http_headers_only THEN "" ELSE body)
                        \o _line("\r\n"),
              pos |-> IF http_headers_only THEN record.pos
                      ELSE Len(record.stream)]
        ELSE [bytes |-> head \o _line("Content-Length: 0\r\n\r\n"),
              pos |-> record.pos]

(***************************************************************************)
(* Inputs of the record pipeline.  A payload is handed to a constructor    *)
(* as the recorder leaves it after spooling it: positioned at its end, so  *)
(* that payload.tell() is its length.                                      *)
(***************************************************************************)
Spooled(bytes) == [bytes |-> bytes, pos |-> Len(bytes)]

ReqHead == "GET / HTTP/1.0\r\nHost: e.org\r\nCookie: k\r\n\r\n"

RespHead == "HTTP/1.0 200 OK\r\nSet-Cookie: s\r\n\r\n"

WarcHead(type, digests) ==
    "WARC/1.0\r\nWARC-Type: " \o type \o "\r\nWARC-Target-URI: http://e.org\r\n"
    \o "WARC-Date: 2020-01-01T00:00:00Z\r\n" \o digests \o "\r\n"

ReqPayloads == {Spooled(ReqHead \o b) : b \in {"", "q=1"}}

\* digests a record may carry when it arrives: none, one of the two, both
UpstreamDigests ==
    { <<>>,
      <<<<"WARC-Payload-Digest", "sha1:UPSTREAM">>>>,
      <<<<"WARC-Block-Digest", "sha1:UPSTREAM">>>>,
      <<<<"WARC-Block-Digest", "sha1:UPSTREAM">>,
        <<"WARC-Payload-Digest", "sha1:UPSTREAM">>>> }

RespPayloads ==
    {Spooled(WarcHead("response", d) \o RespHead \o b) :
        d \in {"", "WARC-Payload-Digest: sha1:UPSTREAM\r\n"},
        b \in {"", "0123456789"}}
    \cup {Spooled(WarcHead("metadata", "") \o b) : b \in {"", "k: v\r\n"}}

ExcludeLists == {{}, {"cookie", "set-cookie"}}

Infos == {<<>>, <<<<"software", "recorder">>>>,
          <<<<"software", "recorder">>, <<"format", "">>>>}

CustomPayloads == {Spooled(b) : b \in {"", "meta"}}

CustomHeaders == UpstreamDigests \cup {<<<<"Content-Type", "application/json">>>>}

LookupResults ==
    {[kind |-> k, uri |-> "", date |-> ""] : k \in {"none", "skip", "raise"}}
    \cup {[kind |-> "revisit", uri |-> "http://orig.org",
           date |-> "2019-01-01T00:00:00Z"]}

\* what a record built by its caller declares as its length: the length of
\* its stream, or more than the stream yields
DeclaredLengths == {"exact", "short"}

NoLookup == [kind |-> "", uri |-> "", date |-> ""]

Today == "2020-01-02T00:00:00Z"

(***************************************************************************)
(* MultiFileWARCWriter.                                                    *)
(*                                                                         *)
(* A filename is the number of the get_new_filename call that made it:     *)
(* the template embeds timestamp20_now(), which differs from one call to   *)
(* the next.  The file object returned by open(filename) is named by the   *)
(* same number.  handles[f] is that file object: unopened, open or         *)
(* closed, whether it holds the flock, and its position.  disk[f] is the   *)
(* file while the writer holds it in fh_cache: its size and modification   *)
(* time, and whether its name is still in the directory (another process   *)
(* may move it away).  Once a file has left fh_cache the writer never      *)
(* looks at it again, and disk[f] is NoFile.                               *)
(***************************************************************************)
DirKeys == {"a", "b"}

NoEntry == [out |-> 0, filename |-> 0]

NoFile == [present |-> FALSE, size |-> 0, mtime |-> 0]

NoLast ==
    [op |-> "init", lookup |-> "", fault |-> "none",
     unlock_failed |-> FALSE, wret |-> "", ret |-> "", file |-> 0,
     size |-> 0, wrote |-> 0]

\* both threads between calls, with no locals
NoThreads == [write |-> "idle", sweep |-> "idle"]

NoFrame ==
    [dir_key |-> "", out |-> 0, filename |-> 0, is_new |-> FALSE,
     raised |-> FALSE, now |-> 0, items |-> <<>>]

WriterInit(max_size, max_idle_secs, dedup_index, gzip) ==
    /\ cfg = [max_size |-> max_size, max_idle_secs |-> max_idle_secs,
              dedup_index |-> dedup_index, gzip |-> gzip]
    /\ fh_cache = [k \in DirKeys |-> NoEntry]
    /\ handles = [f \in 1..MaxFiles |-> [state |-> "unopened", locked |-> FALSE, pos |-> 0]]
    /\ disk = [f \in 1..MaxFiles |-> NoFile]
    /\ nfiles = 0
    /\ now = 0
    /\ index = <<>>
    /\ last = NoLast
    /\ pc = NoThreads
    /\ frame = NoFrame

get_new_filename == nfiles + 1

\* open(filename, 'a+b') of a new name: an empty file and its file object
Opened(hs, f) == [hs EXCEPT ![f] = [state |-> "open", locked |-> FALSE, pos |-> 0]]

Created(d, f) == [d EXCEPT ![f] = [present |-> TRUE, size |-> 0, mtime |-> now]]

\* out.write of n bytes in append mode, then flush
Appended(d, f, n) ==
    IF n = 0 THEN d ELSE [d EXCEPT ![f].size = @ + n, ![f].mtime = now]

\* the files the writer still holds in its cache
Watched(d, cache) ==
    [f \in 1..MaxFiles |->
        IF \E k \in DirKeys : cache[k].filename = f THEN d[f] ELSE NoFile]

\* the file objects: the position of one the writer has let go of is never
\* read again
Held(hs, cache) ==
    [f \in 1..MaxFiles |->
        IF \E k \in DirKeys : cache[k].out = f THEN hs[f]
        ELSE [hs[f] EXCEPT !.pos = 0]]

\* _close_file: when flock(LOCK_UN) raises, fh.close() is not reached and the
\* exception is printed
_close_file(hs, fh, unlock_raises) ==
    IF unlock_raises \/ hs[fh].state # "open" THEN hs
    ELSE [hs EXCEPT ![fh] = [state |-> "closed", locked |-> FALSE, pos |-> 0]]

\* the entry is left in the cache
Pop_kept(cache, dir_key) == cache

Pop(cache, dir_key) == [cache EXCEPT ![dir_key] = NoEntry]

Call(fn, filename, length, raised) ==
    [fn |-> fn, filename |-> filename, length |-> length, raised |-> raised]

\* GzippingWrapper: one gzip member per record, its header and trailer around
\* the deflated bytes (modelled as stored, not shrunk)
GzippingWrapper(bytes) == "GZIPHEADER" \o bytes \o "CRC32+SZ"

Sink(bytes) == IF cfg.gzip THEN GzippingWrapper(bytes) ELSE bytes

(***************************************************************************)
(* _write_to_file(params, write_callback).  The callback is to write n     *)
(* bytes.  fault names what goes wrong in the call, if anything:           *)
(*   "veto"               allow_new_file answers False                     *)
(*   "open"               open() raises in _open_file                      *)
(*   "add_warc_file"      dedup_index.add_warc_file raises in _open_file   *)
(*   "write"              out.tell(), write_callback or out.flush() raise, *)
(*                        after partial of the n bytes reached the file    *)
(*   "add_urls_to_index"  dedup_index.add_urls_to_index raises             *)
(*   "flock"              flock(LOCK_EX | LOCK_NB) raises                  *)
(* unlock_raises whether flock(LOCK_UN) raises in _close_file, and         *)
(* index_reads whether add_urls_to_index, which is handed the file object  *)
(* positioned at start, reads the new bytes from it (and so leaves it at   *)
(* the end of the file) or leaves it where it is.                          *)
(* The value is the state the call leaves and what it returned: "True",    *)
(* "False", or "raise" when an exception left the call.  Its fault is the  *)
(* fault that took effect ("none" when the faulty call was not made), its  *)
(* file the file the call worked on, its size that file's end offset when  *)
(* the call ended and its wrote the bytes the call appended.               *)
(***************************************************************************)
Faults == {"none", "veto", "open", "add_warc_file", "write",
           "add_urls_to_index", "flock"}

Outcome(cache, hs, d, nf, calls, ret, fault, unlock_failed, file, size, wrote) ==
    [fh_cache |-> cache, handles |-> Held(hs, cache), disk |-> Watched(d, cache),
     nfiles |-> nf,
     calls |-> calls, ret |-> ret, fault |-> fault,
     unlock_failed |-> unlock_failed, file |-> file, size |-> size,
     wrote |-> wrote]

_write_to_file(dir_key, n, fault, partial, unlock_raises, index_reads) ==
    LET result   == fh_cache[dir_key]
        is_new   == result = NoEntry
        filename == IF is_new THEN get_new_filename ELSE result.filename
        out_     == filename
        \* _open_file
        hs0      == IF is_new THEN Opened(handles, out_) ELSE handles
        d0       == IF is_new THEN Created(disk, filename) ELSE disk
        nf0      == IF is_new THEN nfiles + 1 ELSE nfiles
        calls0   == IF is_new /\ cfg.dedup_index
                    THEN <<Call("add_warc_file", filename, 0, fault = "add_warc_file")>>
                    ELSE <<>>
        \* the try block
        start    == hs0[out_].pos
        d1       == Appended(d0, filename, IF fault = "write" THEN partial ELSE n)
        new_size == d1[filename].size
        hs1      == [hs0 EXCEPT ![out_].pos =
                        IF fault = "write"
                        THEN (IF partial = 0 THEN @ ELSE new_size)
                        ELSE IF cfg.dedup_index /\ index_reads
                                /\ fault # "add_urls_to_index"
                        THEN new_size
                        ELSE start]
        calls1   == IF cfg.dedup_index /\ fault # "write"
                    THEN Append(calls0, Call("add_urls_to_index", filename,
                                             new_size - start,
                                             fault = "add_urls_to_index"))
                    ELSE calls0
        raised   == fault = "write" \/ (cfg.dedup_index /\ fault = "add_urls_to_index")
        \* the finally block
        close_file == raised \/ (cfg.max_size # 0 /\ new_size > cfg.max_size)
        failed   == unlock_raises /\ hs1[out_].state = "open"
        closed   == _close_file(hs1, out_, unlock_raises)
        popped   == IF ~is_new THEN Pop(fh_cache, dir_key) ELSE fh_cache
        locked   == [hs1 EXCEPT ![out_].locked = TRUE]
        cached   == [fh_cache EXCEPT ![dir_key] = [out |-> out_, filename |-> filename]]
    IN  IF is_new /\ fault = "veto"
        THEN Outcome(fh_cache, handles, disk, nfiles, <<>>, "False", "veto",
                     FALSE, 0, 0, 0)
        ELSE IF is_new /\ fault = "open"
        THEN Outcome(fh_cache, handles, disk, nfiles, <<>>, "raise", "open",
                     FALSE, 0, 0, 0)
        ELSE IF is_new /\ cfg.dedup_index /\ fault = "add_warc_file"
        THEN Outcome(fh_cache, hs0, d0, nf0, calls0, "raise", "add_warc_file",
                     FALSE, filename, 0, 0)
        ELSE IF fault = "write" /\ cfg.max_size # 0
        THEN \* new_size was never assigned: the finally block raises
             \* UnboundLocalError before it closes anything
             Outcome(fh_cache, hs1, d1, nf0, calls1, "raise", "write",
                     FALSE, filename, new_size, partial)
        ELSE IF close_file
        THEN Outcome(popped, closed, d1, nf0, calls1,
                     IF raised THEN "False" ELSE "True",
                     IF raised THEN fault ELSE "none",
                     failed, filename, new_size,
                     IF fault = "write" THEN partial ELSE n)
        ELSE IF is_new /\ fault = "flock"
        THEN Outcome(fh_cache, hs1, d1, nf0, calls1, "raise", "flock",
                     FALSE, filename, new_size, n)
        ELSE IF is_new
        THEN Outcome(cached, locked, d1, nf0, calls1, "True", "none",
                     FALSE, filename, new_size, n)
        ELSE Outcome(fh_cache, hs1, d1, nf0, calls1, "True", "none",
                     FALSE, filename, new_size, n)

(***************************************************************************)
(* CodecSpec: one record at a time is built, digested, passed through      *)
(* _check_revisit and serialized by a BaseWARCWriter with a dedup index.   *)
(***************************************************************************)
CodecInit ==
    /\ stage = "idle"
    /\ rec = None
    /\ origin = ""
    /\ lookup = NoLookup
    /\ ncalls = 0
    /\ lastop = "init"
    /\ out = ""
    /\ prepos = 0
    /\ WriterInit(0, 0, TRUE, FALSE)

CreateReqRecord ==
    /\ stage = "idle"
    /\ \E h \in UpstreamDigests, payload \in ReqPayloads, x \in ExcludeLists :
          rec' = create_req_record(h, payload, x, "0001")
    /\ stage' = "built"
    /\ origin' = "create_req_record"
    /\ lastop' = "create_req_record"
    /\ UNCHANGED <<lookup, ncalls, out, prepos>>
    /\ UNCHANGED writerVars

ReadRespRecord ==
    /\ stage = "idle"
    /\ \E payload \in RespPayloads, x \in ExcludeLists :
          rec' = read_resp_record(payload, x)
    /\ stage' = "built"
    /\ origin' = "read_resp_record"
    /\ lastop' = "read_resp_record"
    /\ UNCHANGED <<lookup, ncalls, out, prepos>>
    /\ UNCHANGED writerVars

CreateWarcinfoRecord ==
    /\ stage = "idle"
    /\ \E filename \in {"", "rec.warc.gz"}, info \in Infos :
          rec' = create_warcinfo_record(filename, info, "0001", Today)
    /\ stage' = "built"
    /\ origin' = "create_warcinfo_record"
    /\ lastop' = "create_warcinfo_record"
    /\ UNCHANGED <<lookup, ncalls, out, prepos>>
    /\ UNCHANGED writerVars

CreateCustomRecord ==
    /\ stage = "idle"
    /\ \E payload \in CustomPayloads, type \in {"metadata", "resource"},
          ct \in {"", "text/plain"}, h \in CustomHeaders :
          rec' = create_custom_record("http://e.org", payload, type, ct, h,
                                      "0001", Today)
    /\ stage' = "built"
    /\ origin' = "create_custom_record"
    /\ lastop' = "create_custom_record"
    /\ UNCHANGED <<lookup, ncalls, out, prepos>>
    /\ UNCHANGED writerVars

\* write_record and write_req_resp take any record: one their caller built
\* with ArcWarcRecord, declaring the length of its stream or more than the
\* stream holds
CallerRecord ==
    /\ stage = "idle"
    /\ \E payload \in CustomPayloads, length \in DeclaredLengths,
          type \in {"response", "resource"} :
          /\ payload.bytes # ""
          /\ rec' = ArcWarcRecord(type,
                                  <<<<"WARC-Type", type>>,
                                    <<"WARC-Record-ID", _make_warc_id("0001")>>,
                                    <<"WARC-Target-URI", "http://e.org">>,
                                    <<"WARC-Date", Today>>>>,
                                  [bytes |-> payload.bytes, pos |-> 0],
                                  NoStatus, "text/plain",
                                  IF length = "short" THEN Len(payload.bytes) + 5
                                  ELSE Len(payload.bytes))
    /\ stage' = "built"
    /\ origin' = "ArcWarcRecord"
    /\ lastop' = "ArcWarcRecord"
    /\ UNCHANGED <<lookup, ncalls, out, prepos>>
    /\ UNCHANGED writerVars

\* the owner of the stream repositions it between two calls
SeekStream ==
    /\ stage \in {"built", "checked"}
    /\ \E p \in {0, Len(rec.stream)} :
          /\ p # rec.pos
          /\ rec' = [rec EXCEPT !.pos = p]
    /\ lastop' = "seek"
    /\ UNCHANGED <<stage, origin, lookup, ncalls, out, prepos>>
    /\ UNCHANGED writerVars

EnsureDigest ==
    /\ stage \in {"built", "checked"}
    /\ ncalls < MaxDigestCalls
    /\ rec' = ensure_digest(rec)
    /\ ncalls' = ncalls + 1
    /\ lastop' = "ensure_digest"
    /\ UNCHANGED <<stage, origin, lookup, out, prepos>>
    /\ UNCHANGED writerVars

CheckRevisit ==
    /\ stage = "built"
    /\ \E result \in LookupResults :
          /\ lookup' = result
          /\ rec' = _check_revisit(rec, TRUE, result)
          /\ stage' = IF rec' = None THEN "skipped" ELSE "checked"
    /\ lastop' = "_check_revisit"
    /\ UNCHANGED <<origin, ncalls, out, prepos>>
    /\ UNCHANGED writerVars

WriteWarcRecord ==
    /\ stage \in {"built", "checked"}
    /\ LET w == _write_warc_record(rec)
       IN  /\ out' = w.bytes
           /\ rec' = [rec EXCEPT !.pos = w.pos]
    /\ prepos' = rec.pos
    /\ stage' = "written"
    /\ lastop' = "_write_warc_record"
    /\ UNCHANGED <<origin, lookup, ncalls>>
    /\ UNCHANGED writerVars

NextRecord ==
    /\ stage \in {"written", "skipped"}
    /\ stage' = "idle"
    /\ rec' = None
    /\ origin' = ""
    /\ lookup' = NoLookup
    /\ ncalls' = 0
    /\ lastop' = "init"
    /\ out' = ""
    /\ prepos' = 0
    /\ UNCHANGED writerVars

CodecNext ==
    \/ CreateReqRecord
    \/ ReadRespRecord
    \/ CreateWarcinfoRecord
    \/ CreateCustomRecord
    \/ CallerRecord
    \/ SeekStream
    \/ EnsureDigest
    \/ CheckRevisit
    \/ WriteWarcRecord
    \/ NextRecord

CodecSpec == CodecInit /\ [][CodecNext]_vars

(***************************************************************************)
(* Reading a written record back by the framing rules: the WARC headers    *)
(* up to the blank line, then Content-Length bytes of block, then the      *)
(* rest (the record's trailing blank lines).                               *)
(***************************************************************************)
ReadBack(o) ==
    LET p == parse(o, 0)
        cl == Get(p.headers, "Content-Length")
        n == IF \E m \in 0..Len(o) : ToString(m) = cl
             THEN CHOOSE m \in 0..Len(o) : ToString(m) = cl
             ELSE Len(o)
        end == Min(Len(o), p.pos + n)
    IN  [content_length |-> cl,
         blank |-> p.pos,
         block |-> SubSeq(o, p.pos + 1, end),
         rest |-> SubSeq(o, end + 1, Len(o))]

\* o reads back as a record declaring n bytes and holding them as its block
Declares(o, n) == ReadBack(o).content_length = ToString(n)

Holds(o, block, rest) ==
    LET r == ReadBack(o) IN r.block = block /\ r.rest = rest

EndsWith(o, t) == Len(o) >= Len(t) /\ SubSeq(o, Len(o) - Len(t) + 1, Len(o)) = t

HeadersBuff(record) ==
    IF record.status_headers.present THEN record.status_headers.headers_buff ELSE ""

Constructors ==
    {"create_req_record", "read_resp_record", "create_warcinfo_record",
     "create_custom_record"}

\* the bytes _write_warc_record read from the record's stream
BodyRead == SubSeq(rec.stream, prepos + 1, rec.pos)

(***************************************************************************)
(* C5.  A response for which lookup_revisit returned ("revisit", uri,      *)
(* date) carries, after _check_revisit, WARC-Type revisit, the fixed       *)
(* profile and the two references; _write_warc_record then writes the      *)
(* rendered header block and nothing else after the blank line, does not   *)
(* move the stream, and emits the header block's length as Content-Length. *)
(***************************************************************************)
C5_RevisitRewritten ==
    (stage \in {"checked", "written"} /\ lookup.kind = "revisit"
        /\ rec.rec_type = "response") =>
        /\ Get(rec.rec_headers, "WARC-Type") = "revisit"
        /\ Get(rec.rec_headers, "WARC-Profile") = REVISIT_PROFILE
        /\ Get(rec.rec_headers, "WARC-Refers-To-Target-URI") = lookup.uri
        /\ Get(rec.rec_headers, "WARC-Refers-To-Date") = lookup.date
        /\ stage = "written" =>
              /\ rec.pos = prepos
              /\ Declares(out, Len(HeadersBuff(rec)))
              /\ Holds(out, HeadersBuff(rec), "\r\n\r\n")

\* a revisit of a response with a body left to read has been written
C5_Witness ==
    /\ stage = "written"
    /\ lookup.kind = "revisit"
    /\ rec.rec_type = "response"
    /\ prepos < Len(rec.stream)
    /\ HeadersBuff(rec) # ""

(***************************************************************************)
(* C6.  For a written record that is not a revisit, built by one of the    *)
(* four constructors from a spooled payload, the emitted Content-Length    *)
(* is len(headers_buff) plus the number of body bytes read from the        *)
(* stream, and exactly those bytes stand between the blank line and the    *)
(* record's trailing blank lines.                                          *)
(***************************************************************************)
C6_ContentLengthIsBlockLength ==
    (stage = "written" /\ origin \in Constructors
        /\ Get(rec.rec_headers, "WARC-Type") # "revisit") =>
        /\ Declares(out, Len(HeadersBuff(rec)) + Len(BodyRead))
        /\ rec.length # 0 => Holds(out, HeadersBuff(rec) \o BodyRead, "\r\n\r\n")

\* a request whose rendered header block is shorter than the one in its
\* stream (a header was excluded) has been written with its body
C6_Witness ==
    /\ stage = "written"
    /\ origin = "create_req_record"
    /\ Get(rec.rec_headers, "WARC-Type") # "revisit"
    /\ Len(BodyRead) > 0
    /\ Len(HeadersBuff(rec)) + Len(BodyRead) < rec.length

(***************************************************************************)
(* C7.  As claimed: a call of ensure_digest never changes a digest header  *)
(* that was set before the call, whichever of the two were set, and        *)
(* leaves the stream position where it was.                                *)
(***************************************************************************)
C7_NeverChangesSetDigest ==
    [][lastop' = "ensure_digest" =>
          /\ rec'.pos = rec.pos
          /\ \A d \in {"WARC-Block-Digest", "WARC-Payload-Digest"} :
                Get(rec.rec_headers, d) # "" =>
                    Get(rec'.rec_headers, d) = Get(rec.rec_headers, d)]_vars

(***************************************************************************)
(* C7, amended.  A call of ensure_digest changes nothing when both digest  *)
(* headers were set before it; otherwise it sets both headers (replacing   *)
(* the one that was set) and nothing else.  A second call changes          *)
(* nothing, and every call leaves the stream position where it was.        *)
(***************************************************************************)
C7_IdempotentWhenBothSet ==
    [][lastop' = "ensure_digest" =>
          /\ rec'.pos = rec.pos
          /\ (Get(rec.rec_headers, "WARC-Block-Digest") # ""
                /\ Get(rec.rec_headers, "WARC-Payload-Digest") # "") => rec' = rec
          /\ ncalls >= 1 => rec' = rec
          /\ ensure_digest(rec') = rec'
          /\ \A i \in DOMAIN rec.rec_headers :
                rec.rec_headers[i][1] \notin {"WARC-Block-Digest", "WARC-Payload-Digest"}
                    => rec'.rec_headers[i] = rec.rec_headers[i]
          /\ [rec' EXCEPT !.rec_headers = <<>>] = [rec EXCEPT !.rec_headers = <<>>]]_vars

\* ensure_digest has run twice on a request that arrived with one digest
\* set and with body bytes left to read
C7_Witness ==
    /\ lastop = "ensure_digest"
    /\ ncalls = 2
    /\ origin = "create_req_record"
    /\ Get(rec.rec_headers, "WARC-Payload-Digest") # "sha1:UPSTREAM"
    /\ Get(rec.rec_headers, "WARC-Block-Digest") # "sha1:UPSTREAM"
    /\ rec.pos < Len(rec.stream)

(***************************************************************************)
(* C8.  As claimed: the bytes written for a record of length 0 end in      *)
(* exactly "Content-Length: 0\r\n\r\n" after the header lines, with no     *)
(* further blank line, and the stream is not read.                         *)
(***************************************************************************)
C8_EndsInTwoLineBreaks ==
    (stage = "written" /\ rec.length = 0) =>
        /\ EndsWith(out, "Content-Length: 0\r\n\r\n")
        /\ ~EndsWith(out, "\r\n\r\n\r\n")
        /\ rec.pos = prepos

(***************************************************************************)
(* C8, amended.  The bytes written for a record of length 0 end in         *)
(* "Content-Length: 0\r\n\r\n\r\n": the Content-Length line, the blank     *)
(* line that ends the headers and one more blank line.  Nothing stands     *)
(* between the two blank lines (no header block, no body) and the stream   *)
(* is not read.                                                            *)
(***************************************************************************)
C8_EndsInThreeLineBreaks ==
    (stage = "written" /\ rec.length = 0) =>
        /\ EndsWith(out, "\r\nContent-Length: 0\r\n\r\n\r\n")
        /\ ~EndsWith(out, "\r\n\r\n\r\n\r\n")
        /\ ReadBack(out).blank = Len(out) - 2
        /\ ReadBack(out).block = ""
        /\ rec.pos = prepos

\* a record of length 0 has been written
C8_Witness ==
    /\ stage = "written"
    /\ rec.length = 0
    /\ origin = "create_custom_record"

(***************************************************************************)
(* Spec: the calls made on one MultiFileWARCWriter, one at a time, and     *)
(* what its surroundings do between them (time passes, a file is moved     *)
(* away).  The writer reads the clock and the directory only in            *)
(* close_idle_files, and only when max_idle_secs is set: time passes and   *)
(* files move in those configurations alone.                               *)
(***************************************************************************)
\* a cached file of this size or more gets no further write in the model
MaxBytes == 300

WriterResp ==
    read_resp_record(Spooled(WarcHead("response", "") \o RespHead \o "0123456789"), {})

WriterReq == create_req_record(<<>>, Spooled(ReqHead), {}, "0002")

WriterInfo ==
    create_warcinfo_record("rec.warc.gz", <<<<"software", "recorder">>>>, "0003", Today)

\* the writers: with and without rotation and dedup index when the sweep
\* is off, and one with the sweep on (max_size and dedup_index, which the
\* sweep does not read, at their defaults)
Init ==
    /\ stage = "idle"
    /\ rec = None
    /\ origin = ""
    /\ lookup = NoLookup
    /\ ncalls = 0
    /\ lastop = "init"
    /\ out = ""
    /\ prepos = 0
    /\ \/ \E max_size \in {0, 600}, dedup_index \in BOOLEAN :
             WriterInit(max_size, 0, dedup_index, TRUE)
       \/ WriterInit(0, 1, FALSE, TRUE)

\* write_req_resp: the request record takes the response's url, date and id
Linked(req, resp) ==
    LET url  == Get(resp.rec_headers, "WARC-Target-URI")
        dt   == Get(resp.rec_headers, "WARC-Date")
        resp_id == Get(resp.rec_headers, "WARC-Record-ID")
        h1   == Set(Set(req.rec_headers, "WARC-Target-URI", url), "WARC-Date", dt)
    IN  [req EXCEPT !.rec_headers =
            IF resp_id # "" THEN Set(h1, "WARC-Concurrent-To", resp_id) ELSE h1]

\* the request as write_req_resp writes it
WriterLinked == Linked(WriterReq, WriterResp)

\* _check_revisit of the response for each answer of the index, worked out
\* once
Checked ==
    [d \in BOOLEAN |-> [r \in LookupResults |-> _check_revisit(WriterResp, d, r)]]

\* the records the calls below hand to _write_warc_record
Written ==
    ({WriterInfo, WriterLinked}
     \cup {Checked[d][r] : d \in BOOLEAN, r \in LookupResults})
    \ {None}

\* _write_warc_record of each of them, worked out once
Serialized == [record \in Written |-> _write_warc_record(record).bytes]

\* a record framed elsewhere, to be copied as it is
WriterStream == GzippingWrapper(Serialized[WriterInfo])

\* the last call, forgotten when the surroundings move
NoCall == [NoLast EXCEPT !.op = "none"]

\* the model's bounds allow the write: a filename is left, the file is not full
CanWrite(dir_key) ==
    IF fh_cache[dir_key] = NoEntry THEN nfiles < MaxFiles
    ELSE disk[fh_cache[dir_key].filename].size < MaxBytes

\* the faults that can take effect in a write to dir_key: each is a call the
\* write makes
Reaches(dir_key, fault, unlock_raises, index_reads) ==
    LET is_new == fh_cache[dir_key] = NoEntry
    IN  /\ fault \in {"veto", "open", "flock"} => is_new
        /\ fault = "add_warc_file" => is_new /\ cfg.dedup_index
        /\ fault = "add_urls_to_index" => cfg.dedup_index
        /\ unlock_raises => (fault \in {"write", "add_urls_to_index"}
                             \/ cfg.max_size # 0)
        /\ index_reads => cfg.dedup_index /\ fault = "none"

LookupCall(result) ==
    IF cfg.dedup_index
    THEN <<Call("lookup_revisit", 0, 0, result.kind = "raise")>>
    ELSE <<>>

Wrote(op, kind, w, ret) ==
    [op |-> op, lookup |-> kind, fault |-> w.fault,
     unlock_failed |-> w.unlock_failed, wret |-> w.ret, ret |-> ret,
     file |-> w.file, size |-> w.size, wrote |-> w.wrote]

WriteReqResp ==
    \E dir_key \in DirKeys :
      /\ CanWrite(dir_key)
      /\ \E result \in LookupResults, fault \in Faults :
          /\ cfg.dedup_index \/ result.kind = "none"
          /\ \E whole \in BOOLEAN, unlock_raises \in BOOLEAN, index_reads \in BOOLEAN :
              /\ whole \/ fault = "write"
              /\ Reaches(dir_key, fault, unlock_raises, index_reads)
              /\ \E resp \in {Checked[cfg.dedup_index][result]},
                    kind \in {IF cfg.dedup_index THEN result.kind ELSE ""} :
                    IF resp = None
                    THEN /\ fault = "none" /\ ~unlock_raises /\ ~index_reads
                         /\ rec' = resp
                         /\ index' = LookupCall(result)
                         /\ last' = [NoLast EXCEPT !.op = "write_req_resp",
                                        !.lookup = kind, !.ret = "None"]
                         /\ UNCHANGED <<fh_cache, handles, disk, nfiles>>
                    ELSE \E n \in {Len(Sink(Serialized[resp]))
                                   + Len(Sink(Serialized[WriterLinked]))} :
                         \E w \in {_write_to_file(dir_key, n, fault,
                                                  IF whole THEN n ELSE 0,
                                                  unlock_raises, index_reads)} :
                             /\ w.fault = fault /\ w.unlock_failed = unlock_raises
                             /\ index_reads => (w.file # 0 /\ w.handles[w.file].pos = w.size)
                             /\ rec' = resp
                             /\ fh_cache' = w.fh_cache
                             /\ handles' = w.handles
                             /\ disk' = w.disk
                             /\ nfiles' = w.nfiles
                             /\ index' = LookupCall(result) \o w.calls
                             /\ last' = Wrote("write_req_resp", kind, w,
                                              IF w.ret = "raise" THEN "raise" ELSE "None")
      /\ UNCHANGED <<cfg, now>>
      /\ UNCHANGED <<stage, origin, lookup, ncalls, lastop, out, prepos, pc, frame>>

WriteRecord ==
    \E dir_key \in DirKeys :
      /\ CanWrite(dir_key)
      /\ \E fault \in Faults, whole \in BOOLEAN :
          /\ whole \/ fault = "write"
          /\ \E unlock_raises \in BOOLEAN, index_reads \in BOOLEAN :
              /\ Reaches(dir_key, fault, unlock_raises, index_reads)
              /\ \E n \in {Len(Sink(Serialized[WriterInfo]))} :
                 \E w \in {_write_to_file(dir_key, n, fault,
                                          IF whole THEN n ELSE 0,
                                          unlock_raises, index_reads)} :
                     /\ w.fault = fault /\ w.unlock_failed = unlock_raises
                     /\ index_reads => (w.file # 0 /\ w.handles[w.file].pos = w.size)
                     /\ fh_cache' = w.fh_cache
                     /\ handles' = w.handles
                     /\ disk' = w.disk
                     /\ nfiles' = w.nfiles
                     /\ index' = w.calls
                     /\ last' = Wrote("write_record", "", w,
                                      IF w.ret = "raise" THEN "raise" ELSE "None")
      /\ rec' = None
      /\ UNCHANGED <<cfg, now>>
      /\ UNCHANGED <<stage, origin, lookup, ncalls, lastop, out, prepos, pc, frame>>

WriteStreamToFile ==
    \E dir_key \in DirKeys :
      /\ CanWrite(dir_key)
      /\ \E fault \in Faults, whole \in BOOLEAN :
          /\ whole \/ fault = "write"
          /\ \E unlock_raises \in BOOLEAN, index_reads \in BOOLEAN :
              /\ Reaches(dir_key, fault, unlock_raises, index_reads)
              /\ \E n \in {Len(WriterStream)} :
                 \E w \in {_write_to_file(dir_key, n, fault,
                                          IF whole THEN n ELSE 0,
                                          unlock_raises, index_reads)} :
                     /\ w.fault = fault /\ w.unlock_failed = unlock_raises
                     /\ index_reads => (w.file # 0 /\ w.handles[w.file].pos = w.size)
                     /\ fh_cache' = w.fh_cache
                     /\ handles' = w.handles
                     /\ disk' = w.disk
                     /\ nfiles' = w.nfiles
                     /\ index' = w.calls
                     /\ last' = Wrote("write_stream_to_file", "", w, w.ret)
      /\ rec' = None
      /\ UNCHANGED <<cfg, now>>
      /\ UNCHANGED <<stage, origin, lookup, ncalls, lastop, out, prepos, pc, frame>>

\* close_key: the value is the cache, the file objects and what is returned
close_key(cache, hs, dir_key, unlock_raises) ==
    LET result == cache[dir_key]
    IN  IF result = NoEntry
        THEN [fh_cache |-> cache, handles |-> hs, ret |-> 0, unlock_failed |-> FALSE]
        ELSE [fh_cache |-> Pop(cache, dir_key),
              handles |-> _close_file(hs, result.out, unlock_raises),
              ret |-> result.filename,
              unlock_failed |-> unlock_raises /\ hs[result.out].state = "open"]

Closed(op, c) ==
    [NoLast EXCEPT !.op = op,
                   !.ret = IF c.ret = 0 THEN "None" ELSE "filename",
                   !.file = c.ret, !.unlock_failed = c.unlock_failed]

CloseKey ==
    \E dir_key \in DirKeys, unlock_raises \in BOOLEAN :
      \E c \in {close_key(fh_cache, handles, dir_key, unlock_raises)} :
            /\ c.unlock_failed = unlock_raises
            /\ fh_cache' = c.fh_cache
            /\ handles' = Held(c.handles, c.fh_cache)
            /\ disk' = Watched(disk, c.fh_cache)
            /\ last' = Closed("close_key", c)
            /\ index' = <<>>
            /\ rec' = None
            /\ UNCHANGED <<cfg, nfiles, now>>
            /\ UNCHANGED <<stage, origin, lookup, ncalls, lastop, out, prepos, pc, frame>>

CloseFile ==
    \E match_filename \in 1..MaxFiles, unlock_raises \in BOOLEAN :
        LET hit == {k \in DirKeys : fh_cache[k] # NoEntry
                                    /\ fh_cache[k].filename = match_filename}
            c == IF hit = {}
                 THEN [fh_cache |-> fh_cache, handles |-> handles, ret |-> 0,
                       unlock_failed |-> FALSE]
                 ELSE close_key(fh_cache, handles, CHOOSE k \in hit : TRUE,
                                unlock_raises)
        IN  /\ match_filename <= nfiles
            /\ c.unlock_failed = unlock_raises
            /\ fh_cache' = c.fh_cache
            /\ handles' = Held(c.handles, c.fh_cache)
            /\ disk' = Watched(disk, c.fh_cache)
            /\ last' = Closed("close_file", c)
            /\ index' = <<>>
            /\ rec' = None
            /\ UNCHANGED <<cfg, nfiles, now>>
            /\ UNCHANGED <<stage, origin, lookup, ncalls, lastop, out, prepos, pc, frame>>

Close ==
    \E unlock_raises \in BOOLEAN :
        /\ unlock_raises => \E k \in DirKeys : fh_cache[k] # NoEntry
        /\ handles' = [f \in 1..MaxFiles |->
                          IF \E k \in DirKeys : fh_cache[k].out = f
                          THEN [_close_file(handles, f, unlock_raises)[f]
                                   EXCEPT !.pos = 0]
                          ELSE handles[f]]
        /\ fh_cache' = [k \in DirKeys |-> NoEntry]
        /\ disk' = [f \in 1..MaxFiles |-> NoFile]
        /\ last' = [NoLast EXCEPT !.op = "close", !.ret = "None",
                       !.unlock_failed =
                           unlock_raises /\ \E k \in DirKeys : fh_cache[k] # NoEntry]
        /\ index' = <<>>
        /\ rec' = None
        /\ UNCHANGED <<cfg, nfiles, now>>
        /\ UNCHANGED <<stage, origin, lookup, ncalls, lastop, out, prepos, pc, frame>>

\* the orders in which a dict of the keys in S may be iterated
Orders(S) ==
    {o \in [1..Cardinality(S) -> S] : \A i, j \in DOMAIN o : o[i] = o[j] => i = j}

IsIdle(filename) == now - disk[filename].mtime > cfg.max_idle_secs

RECURSIVE IdleSweep(_, _, _, _)
\* the loop of close_idle_files over the entries listed when it started
IdleSweep(order, cache, hs, unlock_raises) ==
    IF order = <<>> THEN [fh_cache |-> cache, handles |-> hs]
    ELSE LET dir_key == Head(order)
             filename == fh_cache[dir_key].filename
             c == close_key(cache, hs, dir_key, unlock_raises)
         IN  IF ~disk[filename].present
             THEN \* os.path.getmtime raised: close this entry and return
                  [fh_cache |-> c.fh_cache, handles |-> c.handles]
             ELSE IF IsIdle(filename)
             THEN IdleSweep(Tail(order), c.fh_cache, c.handles, unlock_raises)
             ELSE IdleSweep(Tail(order), cache, hs, unlock_raises)

close_idle_files(order, unlock_raises) ==
    IF cfg.max_idle_secs > 0
    THEN IdleSweep(order, fh_cache, handles, unlock_raises)
    ELSE [fh_cache |-> fh_cache, handles |-> handles]

CloseIdleFiles ==
    \E order \in Orders({k \in DirKeys : fh_cache[k] # NoEntry}),
       unlock_raises \in BOOLEAN :
      \E c \in {close_idle_files(order, unlock_raises)} :
            /\ unlock_raises => c.fh_cache # fh_cache
            /\ fh_cache' = c.fh_cache
            /\ handles' = Held(c.handles, c.fh_cache)
            /\ disk' = Watched(disk, c.fh_cache)
            /\ last' = [NoLast EXCEPT !.op = "close_idle_files", !.ret = "None",
                           !.unlock_failed =
                               unlock_raises /\ c.fh_cache # fh_cache]
            /\ index' = <<>>
            /\ rec' = None
            /\ UNCHANGED <<cfg, nfiles, now>>
            /\ UNCHANGED <<stage, origin, lookup, ncalls, lastop, out, prepos, pc, frame>>

\* a second passes
Tick ==
    /\ cfg.max_idle_secs > 0
    /\ now < MaxTime
    /\ now' = now + 1
    /\ last' = NoCall
    /\ index' = <<>>
    /\ rec' = None
    /\ UNCHANGED <<cfg, fh_cache, handles, disk, nfiles>>
    /\ UNCHANGED <<stage, origin, lookup, ncalls, lastop, out, prepos, pc, frame>>

\* another process moves a cached file out of the directory
FileMoved ==
    /\ cfg.max_idle_secs > 0
    /\ \E f \in 1..MaxFiles :
          /\ disk[f].present
          /\ disk' = [disk EXCEPT ![f].present = FALSE]
    /\ last' = NoCall
    /\ index' = <<>>
    /\ rec' = None
    /\ UNCHANGED <<cfg, fh_cache, handles, nfiles, now>>
    /\ UNCHANGED <<stage, origin, lookup, ncalls, lastop, out, prepos, pc, frame>>

Next ==
    \/ WriteReqResp
    \/ WriteRecord
    \/ WriteStreamToFile
    \/ CloseKey
    \/ CloseFile
    \/ Close
    \/ CloseIdleFiles
    \/ Tick
    \/ FileMoved

Spec == Init /\ [][Next]_vars

(***************************************************************************)
(* ThreadSpec: one thread calls write_record while another calls           *)
(* close_idle_files on the same MultiFileWARCWriter.  The class holds no   *)
(* lock, so the threads interleave between statements: _write_to_file is   *)
(* cut after it has its handle (lines 437-455) and after the try block     *)
(* (lines 457-478), close_idle_files after it has listed the cache (lines  *)
(* 506-511) and after each entry of the list (lines 512-522).              *)
(***************************************************************************)
ThreadInit ==
    /\ stage = "idle"
    /\ rec = None
    /\ origin = ""
    /\ lookup = NoLookup
    /\ ncalls = 0
    /\ lastop = "init"
    /\ out = ""
    /\ prepos = 0
    /\ \E max_size \in {0, 600} : WriterInit(max_size, 1, FALSE, TRUE)

\* _write_to_file up to the try block: the cached handle of dir_key, or a new
\* file
WriteLookup ==
    /\ pc.write = "idle"
    /\ \E dir_key \in DirKeys :
          /\ CanWrite(dir_key)
          /\ \E is_new \in {fh_cache[dir_key] = NoEntry},
                filename \in {IF fh_cache[dir_key] = NoEntry THEN get_new_filename
                              ELSE fh_cache[dir_key].filename} :
                /\ frame' = [frame EXCEPT !.dir_key = dir_key, !.out = filename,
                                          !.filename = filename, !.is_new = is_new,
                                          !.raised = FALSE]
                /\ handles' = IF is_new THEN Opened(handles, filename) ELSE handles
                /\ disk' = IF is_new THEN Created(disk, filename) ELSE disk
                /\ nfiles' = IF is_new THEN nfiles + 1 ELSE nfiles
    /\ pc' = [pc EXCEPT !.write = "try"]
    /\ UNCHANGED <<cfg, fh_cache, now, index, last>>
    /\ UNCHANGED codecVars

\* the try block: out.tell() raises ValueError on a closed file object;
\* otherwise the record is appended and the handle sought back to start
WriteTry ==
    /\ pc.write = "try"
    /\ IF handles[frame.out].state = "open"
       THEN /\ disk' = Appended(disk, frame.filename,
                                 Len(Sink(Serialized[WriterInfo])))
            /\ frame' = frame
       ELSE /\ frame' = [frame EXCEPT !.raised = TRUE]
            /\ disk' = disk
    /\ pc' = [pc EXCEPT !.write = "finally"]
    /\ UNCHANGED <<cfg, fh_cache, handles, nfiles, now, index, last>>
    /\ UNCHANGED codecVars

\* the finally block, and the return of write_record
WriteFinally ==
    /\ pc.write = "finally"
    /\ \E new_size \in {disk[frame.filename].size} :
       \E close_file \in {frame.raised \/ (cfg.max_size # 0 /\ new_size > cfg.max_size)} :
          /\ IF frame.raised /\ cfg.max_size # 0
             THEN \* new_size is unbound: UnboundLocalError
                  UNCHANGED <<fh_cache, handles>>
             ELSE IF close_file
             THEN /\ handles' = _close_file(handles, frame.out, FALSE)
                  /\ fh_cache' = IF ~frame.is_new THEN Pop(fh_cache, frame.dir_key)
                                  ELSE fh_cache
             ELSE IF frame.is_new
             THEN /\ handles' = [handles EXCEPT ![frame.out].locked = TRUE]
                  /\ fh_cache' = [fh_cache EXCEPT ![frame.dir_key] =
                                     [out |-> frame.out, filename |-> frame.filename]]
             ELSE UNCHANGED <<fh_cache, handles>>
          /\ last' = [NoLast EXCEPT
                         !.op = "write_record",
                         !.fault = IF frame.raised THEN "write" ELSE "none",
                         !.wret = IF frame.raised /\ cfg.max_size # 0 THEN "raise"
                                  ELSE IF frame.raised THEN "False" ELSE "True",
                         !.ret = IF frame.raised /\ cfg.max_size # 0 THEN "raise"
                                 ELSE "None",
                         !.file = frame.filename,
                         !.size = new_size,
                         !.wrote = IF frame.raised THEN 0
                                   ELSE Len(Sink(Serialized[WriterInfo]))]
    /\ pc' = [pc EXCEPT !.write = "idle"]
    /\ frame' = [NoFrame EXCEPT !.now = frame.now, !.items = frame.items]
    /\ UNCHANGED <<cfg, disk, nfiles, now, index>>
    /\ UNCHANGED codecVars

\* close_idle_files reads the clock and lists the entries of fh_cache
SweepStart ==
    /\ pc.sweep = "idle"
    /\ cfg.max_idle_secs > 0
    /\ \E k \in DirKeys : fh_cache[k] # NoEntry
    /\ \E order \in Orders({k \in DirKeys : fh_cache[k] # NoEntry}) :
          frame' = [frame EXCEPT
                       !.now = now,
                       !.items = [i \in DOMAIN order |->
                                     [dir_key |-> order[i],
                                      out |-> fh_cache[order[i]].out,
                                      filename |-> fh_cache[order[i]].filename]]]
    /\ pc' = [pc EXCEPT !.sweep = "loop"]
    /\ UNCHANGED <<cfg, fh_cache, handles, disk, nfiles, now, index, last>>
    /\ UNCHANGED codecVars

\* one turn of its loop: the next listed entry is closed when its file is
\* gone (and the sweep returns) or idle
SweepEntry ==
    /\ pc.sweep = "loop"
    /\ \E e \in {Head(frame.items)} :
       \E gone \in {~disk[e.filename].present},
          idle \in {frame.now - disk[e.filename].mtime > cfg.max_idle_secs} :
       \E c \in {IF gone \/ idle
                  THEN close_key(fh_cache, handles, e.dir_key, FALSE)
                  ELSE [fh_cache |-> fh_cache, handles |-> handles]} :
          /\ fh_cache' = c.fh_cache
          /\ handles' = c.handles
          /\ frame' = [frame EXCEPT !.items = IF gone THEN <<>> ELSE Tail(@)]
          /\ pc' = [pc EXCEPT !.sweep = IF gone \/ Tail(frame.items) = <<>>
                                        THEN "idle" ELSE "loop"]
    /\ UNCHANGED <<cfg, disk, nfiles, now, index, last>>
    /\ UNCHANGED codecVars

ThreadNext ==
    \/ WriteLookup
    \/ WriteTry
    \/ WriteFinally
    \/ SweepStart
    \/ SweepEntry
    \/ Tick
    \/ FileMoved

ThreadSpec == ThreadInit /\ [][ThreadNext]_vars

(***************************************************************************)
(* The writer's claims, checked under Spec.                                *)
(***************************************************************************)
WriteOps == {"write_req_resp", "write_record", "write_stream_to_file"}

\* no cache entry holds file f
Evicted(cache, f) == \A k \in DirKeys : cache[k].filename # f

\* the index calls that tell the index of a file or of its new records
Notifies(calls) ==
    \E i \in DOMAIN calls : calls[i].fn \in {"add_warc_file", "add_urls_to_index"}

\* C1: when lookup_revisit answers "skip", write_req_resp returns normally and
\* does no file I/O: no file is created or opened, no byte reaches any file,
\* fh_cache is unchanged, and the index is told of no file and no record.
C1_SkipDoesNoIO ==
    [][(last'.op = "write_req_resp" /\ last'.lookup = "skip")
        => /\ last'.ret = "None"
           /\ last'.file = 0 /\ last'.wrote = 0
           /\ UNCHANGED <<fh_cache, handles, disk, nfiles>>
           /\ ~Notifies(index')]_vars

\* a skipped pair while a file is open in the cache
C1_Witness ==
    /\ last.op = "write_req_resp"
    /\ last.lookup = "skip"
    /\ \E k \in DirKeys : fh_cache[k] # NoEntry /\ disk[fh_cache[k].filename].size > 0

\* C2: whatever max_size is and whether the handle is new or cached, when
\* writing raises (tell, the write callback, flush or add_urls_to_index) and
\* the lock is released without failure, the call returns False, the handle
\* is closed and no cache entry holds it.
C2_WriteFaultClosesAndEvicts ==
    (last.op \in WriteOps /\ last.fault \in {"write", "add_urls_to_index"}
        /\ ~last.unlock_failed)
    => /\ last.wret = "False"
       /\ handles[last.file].state = "closed"
       /\ Evicted(fh_cache, last.file)

\* C3: with max_size = K > 0, a successful write that leaves the file's end
\* above K closes the handle, releases its lock and leaves no cache entry for
\* it; one that leaves it at or below K leaves the file cached, under the
\* entry it had; and a write that finds no entry for its key makes a
\* filename no earlier call made.
C3_RotatesAboveMaxSize ==
    [][(last'.op \in WriteOps /\ cfg.max_size > 0 /\ last'.wret = "True")
        => /\ last'.size > cfg.max_size
                => /\ handles'[last'.file].state = "closed"
                   /\ ~handles'[last'.file].locked
                   /\ Evicted(fh_cache', last'.file)
           /\ last'.size <= cfg.max_size
                => \E k \in DirKeys :
                      /\ fh_cache'[k].filename = last'.file
                      /\ fh_cache[k] # NoEntry => fh_cache'[k] = fh_cache[k]
           /\ Evicted(fh_cache, last'.file)
                => last'.file = nfiles + 1 /\ nfiles' = nfiles + 1]_vars

\* C4: with max_idle_secs = T > 0, one close_idle_files in which no lock
\* release fails closes every cached entry whose file was last modified more
\* than T seconds before, and removes it from the cache, whatever the other
\* entries are like.
C4_SweepClosesEveryIdleEntry ==
    [][(last'.op = "close_idle_files" /\ cfg.max_idle_secs > 0
            /\ ~last'.unlock_failed)
        => \A k \in DirKeys :
              (/\ fh_cache[k] # NoEntry
               /\ disk[fh_cache[k].filename].present
               /\ now - disk[fh_cache[k].filename].mtime > cfg.max_idle_secs)
              => /\ fh_cache'[k] = NoEntry
                 /\ handles'[fh_cache[k].out].state = "closed"]_vars

\* C9: when lookup_revisit raises, _check_revisit gives what it gives for no
\* match, the record itself with every header as it was, and write_req_resp
\* goes on to write the response and the request: with no other fault it
\* returns normally having appended both records.
C9_LookupFailureIsNoMatch ==
    (last.op = "write_req_resp" /\ last.lookup = "raise")
    => /\ rec = WriterResp
       /\ rec = _check_revisit(WriterResp, TRUE, [kind |-> "none", uri |-> "", date |-> ""])
       /\ last.fault = "none"
            => /\ last.ret = "None"
               /\ last.file # 0
               /\ last.wrote = Len(Sink(Serialized[WriterResp]))
                               + Len(Sink(Serialized[WriterLinked]))

\* a pair written after the lookup raised
C9_Witness ==
    /\ last.op = "write_req_resp"
    /\ last.lookup = "raise"
    /\ last.fault = "none"
    /\ last.wret = "True"
    /\ last.wrote > 0

\* C10: when add_warc_file or add_urls_to_index raises (and the lock is
\* released without failure), the bytes are written all the same, the write
\* reports success, and the handle stays open and cached unless the file has
\* grown past max_size.
C10_IndexFaultDoesNotFailWrite ==
    (last.op \in WriteOps /\ last.fault \in {"add_warc_file", "add_urls_to_index"}
        /\ ~last.unlock_failed)
    => /\ last.wret = "True"
       /\ last.wrote > 0
       /\ (cfg.max_size = 0 \/ last.size <= cfg.max_size)
            => /\ handles[last.file].state = "open"
               /\ ~Evicted(fh_cache, last.file)

\* C11: in every state the writer can reach by its write and close calls,
\* fh_cache has for each dir key either no entry or one (out, filename) pair,
\* and the file object of every entry is open and holds the exclusive lock
\* on its file.
C11_CachedHandlesOpenAndLocked ==
    /\ fh_cache \in [DirKeys -> {NoEntry} \cup [out : 1..MaxFiles, filename : 1..MaxFiles]]
    /\ \A k \in DirKeys :
          fh_cache[k] # NoEntry
          => /\ handles[fh_cache[k].out].state = "open"
             /\ handles[fh_cache[k].out].locked

\* a cached file that has had a second write, after a close of another file
\* whose lock release failed
C11_Witness ==
    /\ \E k \in DirKeys :
          /\ fh_cache[k] # NoEntry
          /\ disk[fh_cache[k].filename].size > Len(WriterStream)
    /\ \E f \in 1..MaxFiles :
          /\ Evicted(fh_cache, f)
          /\ handles[f].state = "open"
          /\ handles[f].locked

\* C12: between calls, the position of every file object held in fh_cache is
\* the end of its file: after a _write_to_file that leaves the handle cached,
\* out.tell() equals the file's size.
C12_CursorAtEndOfFile ==
    \A k \in DirKeys :
        fh_cache[k] # NoEntry
        => handles[fh_cache[k].out].pos = disk[fh_cache[k].filename].size

\* C13: every successful write of a writer with a dedup index, to a new or to
\* a cached handle, calls add_urls_to_index once, with the file written to
\* and with the number of bytes this write appended as the length.
C13_IndexToldOfBytesAppended ==
    (last.op \in WriteOps /\ cfg.dedup_index /\ last.wret = "True")
    => \E i \in DOMAIN index :
          /\ index[i] = Call("add_urls_to_index", last.file, last.wrote, FALSE)
          /\ \A j \in DOMAIN index : index[j].fn = "add_urls_to_index" => j = i

\* the file objects a step sets out to close: those of the cache entries it
\* removes, and the file a write worked on when the write leaves it uncached
Closing ==
    {fh_cache[k].out : k \in {d \in DirKeys : fh_cache[d] # NoEntry
                                              /\ fh_cache'[d] # fh_cache[d]}}
    \cup (IF last'.op \in WriteOps /\ last'.file # 0
             /\ Evicted(fh_cache', last'.file)
          THEN {last'.file} ELSE {})

\* C14: when flock(LOCK_UN) raises while a handle is closed (by close_key,
\* close_file, close, the idle sweep, rotation or eviction after a failed
\* write), the call does not raise, the handle is closed all the same, and
\* no cache entry holds it.
C14_UnlockFailureStillCloses ==
    [][last'.unlock_failed
        => /\ last'.ret # "raise"
           /\ last'.wret # "raise"
           /\ \A f \in Closing :
                 /\ handles'[f].state = "closed"
                 /\ Evicted(fh_cache', f)]_vars

\* C15: a record that declares a non-zero length is never written to the end
\* with a Content-Length other than the number of bytes written after the
\* blank line (the header block and the body bytes read from the stream): a
\* stream that yields fewer bytes than declared makes the write fail.
C15_ShortStreamIsAnError ==
    (stage = "written" /\ rec.length # 0)
    => Get(parse(out, 0).headers, "Content-Length")
       = ToString(Len(HeadersBuff(rec)) + Len(BodyRead))

\* what each write call returns to its caller after a successful write
ReturnedOnSuccess(op) == IF op = "write_stream_to_file" THEN "True" ELSE "None"

\* C16: when allow_new_file answers False for the file of an unseen dir key,
\* the write call opens and creates no file, writes no byte, leaves fh_cache
\* as it was, tells the index of nothing, and gives its caller a result
\* other than the one a successful write gives.
C16_VetoReportedAsFailure ==
    [][(last'.op \in WriteOps /\ last'.fault = "veto")
        => /\ UNCHANGED <<fh_cache, handles, disk, nfiles>>
           /\ last'.file = 0 /\ last'.wrote = 0
           /\ ~Notifies(index')
           /\ last'.ret # "raise"
           /\ last'.ret # ReturnedOnSuccess(last'.op)]_vars

\* C17: with a dedup index, lookup_revisit is called only for a response
\* whose WARC-Payload-Digest is set, nothing of the record has been written
\* when it is called, and what is written afterwards is the record as the
\* lookup's outcome left it.
C17_DigestThenLookupThenWrite ==
    [][/\ (lastop' = "_check_revisit" /\ rec.rec_type = "response")
            => /\ Get(rec.rec_headers, "WARC-Payload-Digest") # ""
               /\ out = ""
       /\ (lastop' = "_write_warc_record" /\ stage = "checked"
              /\ rec.rec_type = "response")
            => /\ rec = _check_revisit(rec, TRUE, lookup)
               /\ out' = _write_warc_record(rec).bytes]_vars

\* C18: on a new file the steps are open, flock(LOCK_EX | LOCK_NB),
\* add_warc_file, then caching, and the record bytes are written under the
\* lock: so when taking the lock fails, the file has not been registered
\* with the index and no byte has been written to it.
C18_LockBeforeRegisterAndWrite ==
    (last.op \in WriteOps /\ last.fault = "flock")
    => /\ last.wrote = 0
       /\ ~Notifies(index)
       /\ Evicted(fh_cache, last.file)

\* the values of the Content-Type lines among the WARC headers of o
ContentTypeLines(o) ==
    LET h == parse(o, 0).headers
    IN  [i \in {j \in DOMAIN h : Lower(h[j][1]) = "content-type"} |-> h[i][2]]

\* o has one Content-Type line, with value v, or none when v is empty
EmitsContentType(o, v) ==
    LET lines == ContentTypeLines(o)
    IN  IF v = "" THEN DOMAIN lines = {}
        ELSE Cardinality(DOMAIN lines) = 1 /\ \A i \in DOMAIN lines : lines[i] = v

\* C19, as claimed: the Content-Type line written for a record is its
\* content_type when that is set, otherwise its own Content-Type header,
\* otherwise the table entry of its WARC-Type, otherwise no line; and never
\* more than one line.
C19_OverrideThenHeaderThenTable ==
    stage = "written"
    => EmitsContentType(out,
          IF rec.content_type # "" THEN rec.content_type
          ELSE IF Get(rec.rec_headers, "Content-Type") # ""
          THEN Get(rec.rec_headers, "Content-Type")
          ELSE WARC_RECORDS(Get(rec.rec_headers, "WARC-Type")))

\* C19, amended: the Content-Type line written for a record is its own
\* Content-Type header when it has one, otherwise its content_type when that
\* is set, otherwise the table entry of its WARC-Type, otherwise no line;
\* when the header and content_type are both set and differ the header's
\* value is written; and never more than one line.
C19_HeaderThenOverrideThenTable ==
    stage = "written"
    => EmitsContentType(out,
          IF Get(rec.rec_headers, "Content-Type") # ""
          THEN Get(rec.rec_headers, "Content-Type")
          ELSE IF rec.content_type # "" THEN rec.content_type
          ELSE WARC_RECORDS(Get(rec.rec_headers, "WARC-Type")))

\* a record whose Content-Type header and content_type differ has been
\* written
C19_Witness ==
    /\ stage = "written"
    /\ rec.content_type # ""
    /\ Get(rec.rec_headers, "Content-Type") # ""
    /\ Get(rec.rec_headers, "Content-Type") # rec.content_type

\* C20: with close_idle_files and a write to the same dir key running in two
\* threads, the sweep never closes or evicts the write's handle between the
\* write's cache lookup and the end of the write: while the write is in its
\* try or finally block, its handle is open and, if it came from the cache,
\* still the entry of its dir key.
C20_SweepAndWriteSerialized ==
    pc.write \in {"try", "finally"}
    => /\ handles[frame.out].state = "open"
       /\ ~frame.is_new
            => fh_cache[frame.dir_key] = [out |-> frame.out, filename |-> frame.filename]

\* the file objects the writer has opened and not closed that no cache entry
\* holds
Leaked ==
    {f \in 1..MaxFiles :
        /\ handles[f].state = "open"
        /\ \A k \in DirKeys : fh_cache[k].out # f}

\* C21: after any sequence of write_req_resp, write_record,
\* write_stream_to_file, close_key, close_file, close and close_idle_files
\* calls run one at a time, failing calls included (write error, lock
\* acquisition failure, lock release failure), every file object the writer
\* has opened is the one of a current fh_cache entry or has been closed.
C21_NoHandleLeak == Leaked = {}

====
